---- MODULE Spec2Model ----
(***************************************************************************)
(* State-machine model of the LD2412 radar driver (LD2412.cpp / LD2412.h). *)
(* Byte arrays of the driver are functions over 0-based offsets, so that   *)
(* buffer[8] here is buffer[8] in the source.  Byte streams of the serial  *)
(* link (Transport) are sequences.                                         *)
(***************************************************************************)
EXTENDS Integers, Sequences, FiniteSets, TLC

(***************************** program constants ***************************)
ACK_TIMEOUT == 200
BUFFER_SIZE == 32
SERIAL_BUFFER_SIZE == 21
DEFAULT_REFRESH == 5
\* sizeof(data) in sendCommand: data is a uint8_t*, so this is the size of a
\* pointer (4 on the 32-bit targets the library builds for), not of the array.
PTR_SIZE == 4
\* NULL, the "never read" value of serialLastRead
NULL == 0

FRAME_HEADER == <<\hFD, \hFC, \hFB, \hFA>>
FRAME_FOOTER == <<\h04, \h03, \h02, \h01>>
\* the literals readSerial compares against
TELE_HEADER == <<\hF4, \hF3, \hF2, \hF1>>
TELE_FOOTER == <<\hF8, \hF7, \hF6, \hF5>>

(******************************** bounds ***********************************)
\* number of API calls in a behaviour
MaxCalls == 2
\* the clock ticks freely (between calls) only below this time
MaxTick == 6
\* bytes the Transport holds unread between calls
MaxRx == 22
\* the read at which a capture's deadline passes: early, or after the whole
\* stream was read and the loop has spun on an empty Transport
EarlyDeadline == 8
LateDeadline == 64

(******************************* helpers **********************************)
Min(a, b) == IF a < b THEN a ELSE b

\* a 0-based array holding the elements of sequence s
ArrayOf(s) == [i \in 0..(Len(s) - 1) |-> s[i + 1]]

\* s[from .. ], the part of a sequence after its first n elements
Drop(s, n) == SubSeq(s, n + 1, Len(s))
Take(s, n) == SubSeq(s, 1, Min(n, Len(s)))

\* an array of n bytes all equal to b
Fill(n, b) == [i \in 0..(n - 1) |-> b]

\* n copies of b as a sequence
Rep(n, b) == [i \in 1..n |-> b]

\* what a failed call to Stream::read() (-1) becomes when stored in a uint8_t
EMPTY == -1
AsByte(item) == IF item = EMPTY THEN \hFF ELSE item

\* the bytes of a stream of read() results that are real bytes
RECURSIVE RealBytes(_)
RealBytes(s) ==
  IF s = <<>> THEN <<>>
  ELSE IF Head(s) = EMPTY THEN RealBytes(Tail(s))
       ELSE <<Head(s)>> \o RealBytes(Tail(s))

\* b << 24 for a byte b promoted to a 32-bit int: bit 31 is the sign bit
Shl24(b) == (IF b >= 128 THEN b - 256 ELSE b) * 16777216

(******************************* variables *********************************)
VARIABLES
  buffer,             \* uint8_t buffer[BUFFER_SIZE], shared by getAck and readSerial
  serialBuffer,       \* uint8_t serialBuffer[21], the cached telemetry frame
  serialLastRead,     \* time of the last successful readSerial, NULL if none
  refresh_threshold,  \* unsigned int refresh_threshold
  data_len,           \* uint8_t data_len[2]
  paramResponse,      \* int paramResponse[5]
  sensResponse,       \* int sensResponse[14]
  firmwareResponse,   \* int firmwareResponse[3]
  rx,                 \* Transport: bytes received and not yet read()
  now,                \* CURRENT_TIME, in ms
  ncalls,             \* number of API calls made so far
  call,               \* record of the most recent API call (history)
  captured,           \* history: readSerial has completed a capture loop
  cacheFromTransport  \* history: serialBuffer holds 21 consecutive Transport bytes

driver == <<buffer, serialBuffer, serialLastRead, refresh_threshold, data_len,
            paramResponse, sensResponse, firmwareResponse>>
vars == <<buffer, serialBuffer, serialLastRead, refresh_threshold, data_len,
          paramResponse, sensResponse, firmwareResponse, rx, now, ncalls, call,
          captured, cacheFromTransport>>

(****************************** sendCommand ********************************)
\* The bytes serial.write(data, data_len[0]) reads: sizeof(data) bytes starting
\* at data.  Beyond the end of a shorter array it reads whatever follows the
\* array in memory (oob, indeterminate); a longer array is cut short.
DataRead(data, oob) ==
  [i \in 1..PTR_SIZE |-> IF i <= Len(data) THEN data[i] ELSE oob[i - Len(data)]]

\* the bytes one sendCommand(data) writes to the Transport
SendCommand(data, oob) ==
  FRAME_HEADER \o <<PTR_SIZE, 0>> \o DataRead(data, oob) \o FRAME_FOOTER

(********************************* getAck **********************************)
\* The capture loop: for ACK_TIMEOUT ms every available byte is read, until
\* BUFFER_SIZE bytes were stored.  avail is what the Transport has or gets
\* during the wait.  The number of bytes captured:
AckCount(avail) == Min(Len(avail), BUFFER_SIZE)

\* a loop without the test "i < BUFFER_SIZE": every available byte is stored
AckWrittenUnguarded(avail) == [j \in 1..Len(avail) |-> j - 1]

\* the indices i of the stores "buffer[i++] = serial.read()", in their order:
\* one for each available byte while i < BUFFER_SIZE
AckWritten(avail) ==
  LET InBuffer(i) == i < BUFFER_SIZE
  IN SelectSeq([j \in 1..Len(avail) |-> j - 1], InBuffer)

AckCapture(buf, avail) ==
  [i \in 0..(BUFFER_SIZE - 1) |-> IF i < AckCount(avail) THEN avail[i + 1] ELSE buf[i]]

\* a validation whose footer test starts behind the first footer position, as
\* "len-4 < i && i < len" would
AckInRangeMismatchStrict(buf, respData, len) ==
  \E i \in 0..(len - 1) :
     \/ i < 4 /\ buf[i] # FRAME_HEADER[i + 1]
     \/ i = 4 /\ buf[i] # len - 12
     \/ i = 5 /\ buf[i] # 0
     \/ i = 6 /\ buf[i] # respData
     \/ i = 7 /\ buf[i] # 1
     \/ i > len - 4 /\ buf[i] # FRAME_FOOTER[i - (len - 4) + 1]

\* The disjuncts of the validation that read inside their arrays.  The footer
\* disjunct "len-4<i<len" is (len-4<i)<len, true for every i; for i >= len-4
\* it compares with FRAME_FOOTER[i-(len-4)].
AckInRangeMismatch(buf, respData, len) ==
  \E i \in 0..(len - 1) :
     \/ i < 4 /\ buf[i] # FRAME_HEADER[i + 1]
     \/ i = 4 /\ buf[i] # len - 12
     \/ i = 5 /\ buf[i] # 0
     \/ i = 6 /\ buf[i] # respData
     \/ i = 7 /\ buf[i] # 1
     \/ i >= len - 4 /\ buf[i] # FRAME_FOOTER[i - (len - 4) + 1]

\* For i < len-4 the footer disjunct reads FRAME_FOOTER[i-(len-4)], before the
\* start of the array: the comparison's outcome is not determined by the
\* program.  oobMismatch says whether one of these reads reported a mismatch.
\* TRUE: getAck returns the buffer; FALSE: it returns nullptr.
AckValid(buf, n, respData, len, oobMismatch) ==
  IF n >= len
    THEN ~AckInRangeMismatch(buf, respData, len) /\ ~oobMismatch
    ELSE TRUE

\* whether the validation reaches an out-of-bounds read of FRAME_FOOTER
AckReachesOob(buf, n, respData, len) ==
  n >= len /\ ~AckInRangeMismatch(buf, respData, len)

\* One command/ack exchange: sendCommand(data), then getAck(respData, len), then
\* the caller's test "ack != nullptr && ack[8] == 0x00".  The result holds the
\* shared buffer and the Transport afterwards, the frame written, and about
\* the ack: the bytes captured (n), whether getAck returned the buffer (valid),
\* the caller's verdict (ok), and for the record whether len bytes were
\* captured that pass every in-range check (wellFormed) and the byte at
\* offset 8 (status).
Exchange(buf, pending, data, oob, respData, len, arriving, oobMismatch) ==
  LET avail == pending \o arriving
      n     == AckCount(avail)
      nbuf  == AckCapture(buf, avail)
      valid == AckValid(nbuf, n, respData, len, oobMismatch)
  IN [buffer |-> nbuf,
      rx     |-> Drop(avail, n),
      frame  |-> SendCommand(data, oob),
      ack    |-> [respData |-> respData, len |-> len, n |-> n,
                  wellFormed |-> n >= len /\ ~AckInRangeMismatch(nbuf, respData, len),
                  status |-> nbuf[8],
                  valid |-> valid, ok |-> valid /\ nbuf[8] = 0]]

(*************************** the command catalog ***************************)
\* the switch without its default case: an unlisted baud rate goes on
BaudIndexNoDefault(baud) ==
  CASE baud = 9600   -> 1
    [] baud = 19200  -> 2
    [] baud = 38400  -> 3
    [] baud = 57600  -> 4
    [] baud = 115200 -> 5
    [] baud = 230400 -> 6
    [] baud = 256000 -> 7
    [] baud = 460800 -> 8
    [] OTHER         -> 5

\* setBaudRate's switch: the value stored into data[0]; 0 stands for "default:
\* return false"
BaudIndex(baud) ==
  CASE baud = 9600   -> 1
    [] baud = 19200  -> 2
    [] baud = 38400  -> 3
    [] baud = 57600  -> 4
    [] baud = 115200 -> 5
    [] baud = 230400 -> 6
    [] baud = 256000 -> 7
    [] baud = 460800 -> 8
    [] OTHER         -> 0

\* whether the call returns in the switch's default case, before any I/O
RejectedBeforeIO(c) == c.op = "setBaudRate" /\ BaudIndex(c.arg[1]) = 0

\* the local array "data" each operation passes to sendCommand
OpData(c) ==
  CASE c.op = "enterCalibrationMode"    -> <<\h0B, 0>>
    [] c.op = "checkCalibrationMode"    -> <<\h1B, 0>>
    [] c.op = "readFirmwareVersion"     -> <<\h12, 0>>
    [] c.op = "resetDeviceSettings"     -> <<\hA2, 0>>
    [] c.op = "restartModule"           -> <<\hA3, 0>>
    [] c.op = "setParamConfig"          ->
         <<\h02, 0, c.arg[1], c.arg[2], c.arg[3], 0, c.arg[4]>>
    [] c.op = "setMotionSensitivity"    -> <<\h03, 0>> \o Rep(14, c.arg[1])
    [] c.op = "setMotionSensitivityArr" -> <<\h03, 0>> \o c.arg
    [] c.op = "setStaticSensitivity"    -> <<\h04, 0>> \o Rep(14, c.arg[1])
    [] c.op = "setStaticSensitivityArr" -> <<\h04, 0>> \o c.arg
    \* data = {0x05, 0x00}, then the switch assigns data[0]
    [] c.op = "setBaudRate"             -> <<BaudIndex(c.arg[1]), 0>>
    [] c.op = "getParamConfig"          -> <<\h12, 0>>
    [] c.op = "getMotionSensitivityArr" -> <<\h13, 0>>
    [] c.op = "getMotionSensitivity"    -> <<\h13, 0>>
    [] c.op = "getStaticSensitivityArr" -> <<\h14, 0>>
    [] c.op = "getStaticSensitivity"    -> <<\h14, 0>>

\* the length each operation passes to getAck for its own command
OpAckLen(op) ==
  CASE op \in {"checkCalibrationMode"} -> 16
    [] op \in {"readFirmwareVersion"}  -> 22
    [] op \in {"getParamConfig"}       -> 19
    [] op \in {"getMotionSensitivityArr", "getMotionSensitivity",
               "getStaticSensitivityArr", "getStaticSensitivity"} -> 28
    [] OTHER -> 14

\* Return values are sequences of integers: a bool is <<0>> or <<1>>, an int
\* is <<v>>, a pointer to a result array is the array's contents, nullptr is
\* the empty sequence.
RetBool(b) == IF b THEN <<1>> ELSE <<0>>
RetInt(v) == <<v>>
NullPtr == <<>>

BoolOps == {"enterCalibrationMode", "resetDeviceSettings", "restartModule",
            "setParamConfig", "setMotionSensitivity", "setMotionSensitivityArr",
            "setStaticSensitivity", "setStaticSensitivityArr", "setBaudRate"}
PtrOps == {"readFirmwareVersion", "getParamConfig", "getMotionSensitivityArr",
           "getStaticSensitivityArr"}
MinOps == {"getMotionSensitivity", "getStaticSensitivity"}

\* what "if (!enableConfig()) return ...;" returns
EarlyRet(op) ==
  CASE op \in BoolOps -> RetBool(FALSE)
    [] op = "checkCalibrationMode" -> RetInt(-1)
    [] op \in PtrOps -> NullPtr
    \* "return false;" in a function returning int
    [] op \in MinOps -> RetInt(0)

\* readFirmwareVersion's three fields, from ack[10..17]
FirmwareFields(ack) ==
  <<ack[10] + ack[11] * 256,
    ack[12] + ack[13] * 256,
    ack[14] + ack[15] * 256 + ack[16] * 65536 + Shl24(ack[17])>>

\* the scalar getters' loop: min starts at 100 and takes every smaller ack[i]
RECURSIVE MinFrom(_, _, _)
MinFrom(ack, i, min) ==
  IF i >= 24 THEN min
  ELSE MinFrom(ack, i + 1, IF ack[i] < min THEN ack[i] ELSE min)

\* The value an operation returns once enableConfig succeeded.  ok is the
\* outcome of "ack != nullptr && ack[8] == 0x00" for its own command, atBody is
\* the shared buffer when that getAck returned, atReturn the shared buffer
\* when the return statement is evaluated (after disableConfig).
OpResult(op, ok, atBody, atReturn) ==
  CASE op \in BoolOps -> RetBool(ok)
    \* disableConfig(); return ack[10];
    [] op = "checkCalibrationMode" ->
         IF ok THEN RetInt(atReturn[10]) ELSE RetInt(-1)
    [] op = "readFirmwareVersion" ->
         IF ok THEN FirmwareFields(atBody) ELSE NullPtr
    [] op = "getParamConfig" ->
         IF ok THEN [i \in 1..5 |-> atBody[i + 9]] ELSE NullPtr
    [] op \in {"getMotionSensitivityArr", "getStaticSensitivityArr"} ->
         IF ok THEN [i \in 1..14 |-> atBody[i + 9]] ELSE NullPtr
    [] op \in MinOps ->
         IF ok THEN RetInt(MinFrom(atBody, 10, 100)) ELSE RetInt(-1)

EnableData == <<\hFF, \h00, \h01, \h00>>
DisableData == <<\hFE, \h00>>
ENABLE_ACK_LEN == 18

\* The record of an API call: the operation and its argument, the value it
\* returned, the frames it wrote, one entry per getAck it made, whether it
\* called available(), how many read() calls it made and what they returned,
\* the path readSerial took, and the value the operation's own ack determined.
NoCall ==
  [op |-> "none", arg |-> <<>>, ret |-> <<>>, wrote |-> <<>>, acks |-> <<>>,
   polled |-> FALSE, nRead |-> 0, items |-> <<>>, rs |-> "none",
   bodyRet |-> <<>>, rev |-> "part_000", dl |-> 0, written |-> <<>>]

(******************************* readSerial ********************************)
\* an alignment test that looks at the first header byte only
HeaderMismatchFirstByte(buf, i) ==
  buf[0] # \hF4

\* "Ensures packet capture is properly aligned at header"
HeaderMismatch(buf, i) ==
  \/ buf[0] # \hF4
  \/ i > 0 /\ buf[1] # \hF3
  \/ i > 1 /\ buf[2] # \hF2
  \/ i > 2 /\ buf[3] # \hF1

\* a footer test that is made only once all 21 bytes are in
FooterMismatchAtEnd(buf, i) ==
  i > 19 /\ (\/ buf[17] # \hF8
             \/ buf[18] # \hF7
             \/ buf[19] # \hF6
             \/ buf[20] # \hF5)

\* "Ensures the packet was completely and properly captured by verifying footer"
FooterMismatch(buf, i) ==
  \/ i > 16 /\ buf[17] # \hF8
  \/ i > 17 /\ buf[18] # \hF7
  \/ i > 18 /\ buf[19] # \hF6
  \/ i > 19 /\ buf[20] # \hF5

\* a loop that looks at the clock only while it is aligned with a header;
\* reads that break the alignment after the stream is used up repeat for ever
RECURSIVE CaptureLoopSeeking(_, _, _, _, _)
CaptureLoopSeeking(buf, i, stream, w, dl) ==
  LET k    == Len(w)
      item == IF k < Len(stream) THEN stream[k + 1] ELSE EMPTY
      b1   == [buf EXCEPT ![i] = AsByte(item)]
  IN IF HeaderMismatch(b1, i)
       THEN IF k + 1 >= Len(stream)
              THEN [res |-> "hang", buffer |-> b1, reads |-> k + 1,
                    written |-> Append(w, i)]
              ELSE CaptureLoopSeeking(b1, 0, stream, Append(w, i), dl)
     ELSE IF FooterMismatch(b1, i)
       THEN [res |-> "footer", buffer |-> b1, reads |-> k + 1,
             written |-> Append(w, i)]
     ELSE IF k + 1 >= dl
       THEN [res |-> "timeout", buffer |-> b1, reads |-> k + 1,
             written |-> Append(w, i)]
     ELSE IF i + 1 < 21
       THEN CaptureLoopSeeking(b1, i + 1, stream, Append(w, i), dl)
     ELSE [res |-> "complete", buffer |-> b1, reads |-> k + 1,
           written |-> Append(w, i)]

\* The for loop of readSerial from index i on.  stream is what the successive
\* serial.read() calls return (EMPTY when nothing is available; once the stream
\* is used up every read returns EMPTY); w holds the indices at which the
\* reads made so far were stored, in their order; the clock passes
\* timeRef + ACK_TIMEOUT at read number dl.
RECURSIVE CaptureLoop(_, _, _, _, _)
CaptureLoop(buf, i, stream, w, dl) ==
  LET k    == Len(w)
      item == IF k < Len(stream) THEN stream[k + 1] ELSE EMPTY
      b1   == [buf EXCEPT ![i] = AsByte(item)]
      i1   == IF HeaderMismatch(b1, i) THEN -1 ELSE i
  IN IF FooterMismatch(b1, i1)
       THEN [res |-> "footer", buffer |-> b1, reads |-> k + 1,
             written |-> Append(w, i)]
     ELSE IF k + 1 >= dl
       THEN [res |-> "timeout", buffer |-> b1, reads |-> k + 1,
             written |-> Append(w, i)]
     ELSE IF i1 + 1 < 21
       THEN CaptureLoop(b1, i1 + 1, stream, Append(w, i), dl)
     ELSE [res |-> "complete", buffer |-> b1, reads |-> k + 1,
           written |-> Append(w, i)]

\* whether the refresh test at the top of readSerial returns true at once
Fresh(lastRead, thres, t) == lastRead # NULL /\ t - lastRead < thres

\* a capture that fails but stamps the read time all the same
CaptureOutcomeStamped(c, sbuf, lastRead, t1) ==
  IF c.res = "complete"
    THEN [ok |-> TRUE,
          serialBuffer |-> [i \in 0..(SERIAL_BUFFER_SIZE - 1) |-> c.buffer[i]],
          serialLastRead |-> t1]
    ELSE [ok |-> FALSE, serialBuffer |-> sbuf, serialLastRead |-> t1]

\* What readSerial does with the outcome c of its capture loop: a complete
\* frame is stamped with the time t1 and copied into serialBuffer; "return
\* false" leaves both as they were.
CaptureOutcome(c, sbuf, lastRead, t1) ==
  IF c.res = "complete"
    THEN [ok |-> TRUE,
          serialBuffer |-> [i \in 0..(SERIAL_BUFFER_SIZE - 1) |-> c.buffer[i]],
          serialLastRead |-> t1]
    ELSE [ok |-> FALSE, serialBuffer |-> sbuf, serialLastRead |-> lastRead]

\* readSerial as a whole.  pending is the Transport's content at the call,
\* arriving what read() returns after pending is used up, el the time a
\* capture that does not time out takes.  The result holds the return value
\* (ok), the path taken (res) and the new values of what readSerial assigns.
ReadSerial(buf, sbuf, lastRead, thres, t, pending, arriving, dl, el) ==
  IF Fresh(lastRead, thres, t)
    THEN [res |-> "cached", ok |-> TRUE, buffer |-> buf, serialBuffer |-> sbuf,
          serialLastRead |-> lastRead, rx |-> pending, now |-> t,
          polled |-> FALSE, nRead |-> 0, items |-> <<>>, dl |-> dl,
          written |-> <<>>]
  ELSE IF pending = <<>>
    \* while (serial.available() ...) is not entered
    THEN [res |-> "nodata", ok |-> TRUE, buffer |-> buf,
          serialBuffer |-> [i \in 0..(SERIAL_BUFFER_SIZE - 1) |-> buf[i]],
          serialLastRead |-> t, rx |-> pending, now |-> t,
          polled |-> TRUE, nRead |-> 0, items |-> <<>>, dl |-> dl,
          written |-> <<>>]
  ELSE
    LET stream == pending \o arriving
        c      == CaptureLoop(buf, 0, stream, <<>>, dl)
        t1     == IF c.res = "timeout" THEN t + ACK_TIMEOUT + 1 ELSE t + el
        left   == RealBytes(Drop(stream, Min(c.reads, Len(stream))))
        items  == [j \in 1..c.reads |->
                     IF j <= Len(stream) THEN stream[j] ELSE EMPTY]
        o      == CaptureOutcome(c, sbuf, lastRead, t1)
    IN [res |-> c.res, ok |-> o.ok, buffer |-> c.buffer,
        serialBuffer |-> o.serialBuffer, serialLastRead |-> o.serialLastRead,
        rx |-> left, now |-> t1,
        polled |-> TRUE, nRead |-> c.reads, items |-> items, dl |-> dl,
        written |-> c.written]

Accessors == {"targetState", "movingDistance", "movingEnergy",
              "staticDistance", "staticEnergy"}

\* what an accessor returns after readSerial returned true
AccessorValue(acc, sbuf) ==
  CASE acc = "targetState"    -> sbuf[8]
    [] acc = "movingDistance" -> sbuf[9] + sbuf[10] * 256
    [] acc = "movingEnergy"   -> sbuf[11]
    [] acc = "staticDistance" -> sbuf[12] + sbuf[13] * 256
    [] acc = "staticEnergy"   -> sbuf[14]

\* whether the last 21 read() results were all real bytes
LastFromTransport(items) ==
  /\ Len(items) >= SERIAL_BUFFER_SIZE
  /\ \A j \in (Len(items) - SERIAL_BUFFER_SIZE + 1)..Len(items) : items[j] # EMPTY

(***************************** the environment *****************************)
\* a well-formed ack of total length len for command cmd
GoodAck(cmd, len, status, payload) ==
  FRAME_HEADER \o <<len - 12, 0, cmd, 1, status, 0>> \o payload \o FRAME_FOOTER

\* a telemetry frame: header, length 0x0B, 02 AA, the seven data bytes at
\* offsets 8..14, 55 00, footer
TeleFrame(data) ==
  TELE_HEADER \o <<\h0B, 0, \h02, \hAA>> \o data \o <<\h55, 0>> \o TELE_FOOTER

\* the result payloads the device puts into an ack of length len
AckPayloads(len) == {Rep(len - 14, 40)}

\* what the Transport delivers while enableConfig waits
EnableArrivals ==
  {<<>>, GoodAck(\hFF, ENABLE_ACK_LEN, 0, Rep(4, 0)),
         GoodAck(\hFF, ENABLE_ACK_LEN, 1, Rep(4, 0))}

\* what the Transport delivers while disableConfig waits
DisableArrivals == {<<>>, GoodAck(\hFE, ENABLE_ACK_LEN, 0, Rep(4, 0))}

\* what the Transport delivers while an operation waits for its own ack
BodyArrivals(cmd, len) ==
  {<<>>} \cup {GoodAck(cmd, len, st, p) : st \in {0, 1}, p \in AckPayloads(len)}

\* the outcomes of the out-of-bounds footer comparisons of one getAck
OobOutcomes(buf, avail, respData, len) ==
  IF AckReachesOob(AckCapture(buf, avail), AckCount(avail), respData, len)
    THEN BOOLEAN ELSE {FALSE}

\* the bytes that follow a local data array in memory
OobTails == {<<0, 0>>, <<\hA5, \h5A>>}

\* the contents of the uninitialised byte arrays after construction
InitBytes == {0, \hA5}

(************************* inputs of the behaviours ************************)
Frame0 == TeleFrame(<<0, 0, 0, 0, 0, 0, 0>>)
Frame1 == TeleFrame(<<1, \h2C, \h01, 60, 0, 0, 0>>)

\* what the device sends between calls: whole telemetry frames, or the start
\* of one
Deliveries == {Frame0, Frame1, Take(Frame1, 6)}

\* what read() returns during a capture once the pending bytes are used up:
\* nothing more, the rest of a frame, or the rest after an empty read
CaptureArrivals == {<<>>, Drop(Frame1, 6), <<EMPTY>> \o Drop(Frame1, 6)}

\* the read at which the capture deadline has passed
Deadlines == {EarlyDeadline, LateDeadline}

\* the time a capture takes when it does not time out
CaptureTimes == {0, 2}

RefreshTimes == {0, DEFAULT_REFRESH}

SupportedBauds == {9600, 19200, 38400, 57600, 115200, 230400, 256000, 460800}
OtherBauds == {-1, 0, 4800, 9601, 115201, 921600}

GateValues == Rep(14, 40)

CommandCalls ==
  {[op |-> o, arg |-> <<>>] :
     o \in {"enterCalibrationMode", "checkCalibrationMode", "readFirmwareVersion",
            "resetDeviceSettings", "restartModule", "getParamConfig",
            "getMotionSensitivityArr", "getMotionSensitivity",
            "getStaticSensitivityArr", "getStaticSensitivity"}}
  \cup {[op |-> "setParamConfig", arg |-> <<1, 12, 5, 0>>]}
  \cup {[op |-> o, arg |-> <<40>>] :
          o \in {"setMotionSensitivity", "setStaticSensitivity"}}
  \cup {[op |-> o, arg |-> GateValues] :
          o \in {"setMotionSensitivityArr", "setStaticSensitivityArr"}}
  \cup {[op |-> "setBaudRate", arg |-> <<b>>] : b \in SupportedBauds \cup OtherBauds}

(******************************** actions **********************************)
\* no call is in progress and the last call's result was taken by the caller
Idle == call.op = "none"

Init ==
  /\ \E g \in InitBytes :
       /\ buffer = Fill(BUFFER_SIZE, g)
       /\ serialBuffer = Fill(SERIAL_BUFFER_SIZE, g)
  /\ serialLastRead = NULL
  /\ refresh_threshold = DEFAULT_REFRESH
  /\ data_len = Fill(2, 0)
  /\ paramResponse = <<0, 0, 0, 0, 0>>
  /\ sensResponse = Rep(14, 0)
  /\ firmwareResponse = <<0, 0, 0>>
  /\ rx = <<>>
  /\ now = 0
  /\ ncalls = 0
  /\ call = NoCall
  /\ captured = FALSE
  /\ cacheFromTransport = FALSE

\* setBaudRate with a baud rate outside the switch: "default: return false;"
RejectedCall(c) ==
  /\ Idle
  /\ ncalls < MaxCalls
  /\ RejectedBeforeIO(c)
  /\ ncalls' = ncalls + 1
  /\ call' = [NoCall EXCEPT !.op = c.op, !.arg = c.arg, !.ret = RetBool(FALSE),
                            !.bodyRet = RetBool(FALSE)]
  /\ UNCHANGED <<driver, rx, now, captured, cacheFromTransport>>

\* an operation that leaves without disableConfig when its own ack failed
OpFramesNoCleanup(e, b, d) ==
  IF b.ack.ok THEN <<e.frame, b.frame, d.frame>> ELSE <<e.frame, b.frame>>

\* the frames an operation writes once enableConfig returned true: enable,
\* its own command, and disableConfig on both branches
OpFrames(e, b, d) == <<e.frame, b.frame, d.frame>>

\* "if (!enableConfig()) return ...;" taken: e is the enable exchange
ReturnEarly(c, e) ==
  /\ buffer' = e.buffer
  /\ rx' = e.rx
  /\ now' = now + ACK_TIMEOUT
  /\ data_len' = [data_len EXCEPT ![0] = PTR_SIZE]
  /\ call' = [NoCall EXCEPT !.op = c.op, !.arg = c.arg, !.ret = EarlyRet(c.op),
                            !.wrote = <<e.frame>>, !.acks = <<e.ack>>,
                            !.polled = TRUE, !.nRead = e.ack.n,
                            !.bodyRet = EarlyRet(c.op)]
  /\ UNCHANGED <<paramResponse, sensResponse, firmwareResponse>>

\* the rest of an operation after enableConfig returned true: b is the
\* exchange for the operation's own command, d the disableConfig exchange
ReturnAfterBody(c, e, b, d) ==
  LET ret == OpResult(c.op, b.ack.ok, b.buffer, d.buffer)
  IN /\ buffer' = d.buffer
     /\ rx' = d.rx
     /\ now' = now + 3 * ACK_TIMEOUT
     /\ data_len' = [data_len EXCEPT ![0] = PTR_SIZE]
     /\ paramResponse' =
          IF c.op = "getParamConfig" /\ b.ack.ok THEN ret ELSE paramResponse
     /\ sensResponse' =
          IF c.op \in {"getMotionSensitivityArr", "getStaticSensitivityArr"}
             /\ b.ack.ok
            THEN ret ELSE sensResponse
     /\ firmwareResponse' =
          IF c.op = "readFirmwareVersion" /\ b.ack.ok THEN ret ELSE firmwareResponse
     /\ call' = [NoCall EXCEPT !.op = c.op, !.arg = c.arg, !.ret = ret,
                               !.wrote = OpFrames(e, b, d),
                               !.acks = <<e.ack, b.ack, d.ack>>,
                               !.polled = TRUE,
                               !.nRead = e.ack.n + b.ack.n + d.ack.n,
                               !.bodyRet = OpResult(c.op, b.ack.ok, b.buffer, b.buffer)]

\* A command operation (every public operation that starts with enableConfig).
\* oob is what lies behind its local arrays; the bytes arriving in each ack
\* wait and the outcome of each out-of-bounds comparison are chosen here.
\* (\E x \in {v} names the value v: e, b and d are the three exchanges.)
CommandCall(c, oob) ==
  /\ Idle
  /\ ncalls < MaxCalls
  /\ ~RejectedBeforeIO(c)
  /\ ncalls' = ncalls + 1
  /\ UNCHANGED <<serialBuffer, serialLastRead, refresh_threshold, captured,
                 cacheFromTransport>>
  /\ \E a1 \in EnableArrivals :
     \E u1 \in OobOutcomes(buffer, rx \o a1, EnableData[1], ENABLE_ACK_LEN) :
     \E e \in {Exchange(buffer, rx, EnableData, oob, EnableData[1],
                        ENABLE_ACK_LEN, a1, u1)} :
       IF ~e.ack.ok
         THEN ReturnEarly(c, e)
         ELSE
           \E data \in {OpData(c)} :
           \E a2 \in BodyArrivals(data[1], OpAckLen(c.op)) :
           \E u2 \in OobOutcomes(e.buffer, e.rx \o a2, data[1], OpAckLen(c.op)) :
           \E b \in {Exchange(e.buffer, e.rx, data, oob, data[1],
                              OpAckLen(c.op), a2, u2)} :
           \E a3 \in DisableArrivals :
           \E u3 \in OobOutcomes(b.buffer, b.rx \o a3, DisableData[1],
                                 ENABLE_ACK_LEN) :
           \E d \in {Exchange(b.buffer, b.rx, DisableData, oob, DisableData[1],
                              ENABLE_ACK_LEN, a3, u3)} :
             ReturnAfterBody(c, e, b, d)

\* the state after readSerial returned r to accessor acc
AccessorReturn(acc, r) ==
  LET ret == IF r.ok THEN RetInt(AccessorValue(acc, r.serialBuffer))
                     ELSE RetInt(-1)
  IN /\ buffer' = r.buffer
     /\ serialBuffer' = r.serialBuffer
     /\ serialLastRead' = r.serialLastRead
     /\ rx' = r.rx
     /\ now' = r.now
     /\ captured' = (captured \/ r.res = "complete")
     /\ cacheFromTransport' =
          CASE r.res = "complete" -> LastFromTransport(r.items)
            [] r.res = "nodata"   -> FALSE
            [] OTHER              -> cacheFromTransport
     /\ call' = [NoCall EXCEPT !.op = acc, !.ret = ret, !.polled = r.polled,
                               !.nRead = r.nRead, !.items = r.items,
                               !.rs = r.res, !.bodyRet = ret, !.dl = r.dl,
                               !.written = r.written]

\* A telemetry accessor: "if (!readSerial()) return -1; return <field>;".
\* What arrives during a capture, when its deadline passes and how long it
\* takes are chosen only when readSerial enters its capture loop.
AccessorCall(acc) ==
  /\ Idle
  /\ ncalls < MaxCalls
  /\ ncalls' = ncalls + 1
  /\ UNCHANGED <<refresh_threshold, data_len, paramResponse, sensResponse,
                 firmwareResponse>>
  /\ IF Fresh(serialLastRead, refresh_threshold, now) \/ rx = <<>>
       THEN \E r \in {ReadSerial(buffer, serialBuffer, serialLastRead,
                                 refresh_threshold, now, rx, <<>>, 1, 0)} :
              AccessorReturn(acc, r)
       ELSE \E a \in CaptureArrivals, dl \in Deadlines, el \in CaptureTimes :
            \E r \in {ReadSerial(buffer, serialBuffer, serialLastRead,
                                 refresh_threshold, now, rx, a, dl, el)} :
              AccessorReturn(acc, r)

\* setSerialRefreshThres
SetSerialRefreshThres(refreshTime) ==
  /\ Idle
  /\ ncalls < MaxCalls
  /\ ncalls' = ncalls + 1
  /\ refresh_threshold' = refreshTime
  /\ call' = [NoCall EXCEPT !.op = "setSerialRefreshThres",
                            !.arg = <<refreshTime>>]
  /\ UNCHANGED <<buffer, serialBuffer, serialLastRead, data_len, paramResponse,
                 sensResponse, firmwareResponse, rx, now, captured,
                 cacheFromTransport>>

\* getSerialRefreshThres
GetSerialRefreshThres ==
  /\ Idle
  /\ ncalls < MaxCalls
  /\ ncalls' = ncalls + 1
  /\ call' = [NoCall EXCEPT !.op = "getSerialRefreshThres",
                            !.ret = RetInt(refresh_threshold),
                            !.bodyRet = RetInt(refresh_threshold)]
  /\ UNCHANGED <<driver, rx, now, captured, cacheFromTransport>>

\* the clock advances by a millisecond between two calls
Tick ==
  /\ Idle
  /\ now < MaxTick
  /\ now' = now + 1
  /\ UNCHANGED <<driver, rx, ncalls, call, captured, cacheFromTransport>>

\* the device sends bytes between two calls
Deliver(s) ==
  /\ Idle
  /\ Len(rx) + Len(s) <= MaxRx
  /\ rx' = rx \o s
  /\ UNCHANGED <<driver, now, ncalls, call, captured, cacheFromTransport>>

\* the caller takes the result of the call that returned and goes on
Resume ==
  /\ ~Idle
  /\ call.rs # "hang"
  /\ call' = NoCall
  /\ UNCHANGED <<driver, rx, now, ncalls, captured, cacheFromTransport>>

(***************************** specifications ******************************)
\* The command side: every command operation, with every baud rate of
\* CommandCalls.
NextCmd ==
  \/ \E c \in CommandCalls : RejectedCall(c)
  \/ \E c \in CommandCalls, oob \in OobTails : CommandCall(c, oob)
  \/ Resume

SpecCmd == Init /\ [][NextCmd]_vars

\* The telemetry side: the accessors over readSerial, the refresh threshold,
\* the clock and the device's stream.
Next ==
  \/ \E acc \in Accessors : AccessorCall(acc)
  \/ \E t \in RefreshTimes : SetSerialRefreshThres(t)
  \/ GetSerialRefreshThres
  \/ Tick
  \/ \E s \in Deliveries : Deliver(s)
  \/ Resume

Spec == Init /\ [][Next]_vars

(************************ the older implementation *************************)
\* REFRESH_THRESHOLD of the older header
OLD_REFRESH == 1000

\* The for loop of the older readSerial: header test, footer test and deadline
\* test form one if / else if chain, so a read that breaks the header
\* alignment is followed by the next read without a look at the clock.  The
\* result "hang" is the loop still running, at index 0 again, when the last
\* item of the stream has been read; SeekOld goes on from there.
RECURSIVE CaptureLoopOld(_, _, _, _, _)
CaptureLoopOld(buf, i, stream, w, dl) ==
  LET k    == Len(w)
      item == IF k < Len(stream) THEN stream[k + 1] ELSE EMPTY
      b1   == [buf EXCEPT ![i] = AsByte(item)]
  IN IF HeaderMismatch(b1, i)
       THEN IF k + 1 >= Len(stream)
              THEN [res |-> "hang", buffer |-> b1, reads |-> k + 1,
                    written |-> Append(w, i)]
              ELSE CaptureLoopOld(b1, 0, stream, Append(w, i), dl)
     ELSE IF FooterMismatch(b1, i)
       THEN [res |-> "footer", buffer |-> b1, reads |-> k + 1,
             written |-> Append(w, i)]
     ELSE IF k + 1 >= dl
       THEN [res |-> "timeout", buffer |-> b1, reads |-> k + 1,
             written |-> Append(w, i)]
     ELSE IF i + 1 < 21
       THEN CaptureLoopOld(b1, i + 1, stream, Append(w, i), dl)
     ELSE [res |-> "complete", buffer |-> b1, reads |-> k + 1,
           written |-> Append(w, i)]

\* the older readSerial as a whole, with the parameters of ReadSerial
ReadSerialOld(buf, sbuf, lastRead, t, pending, arriving, dl, el) ==
  IF Fresh(lastRead, OLD_REFRESH, t)
    THEN [res |-> "cached", ok |-> TRUE, buffer |-> buf, serialBuffer |-> sbuf,
          serialLastRead |-> lastRead, rx |-> pending, now |-> t,
          polled |-> FALSE, nRead |-> 0, items |-> <<>>, dl |-> dl,
          written |-> <<>>]
  ELSE IF pending = <<>>
    THEN [res |-> "nodata", ok |-> TRUE, buffer |-> buf,
          serialBuffer |-> [i \in 0..(SERIAL_BUFFER_SIZE - 1) |-> buf[i]],
          serialLastRead |-> t, rx |-> pending, now |-> t,
          polled |-> TRUE, nRead |-> 0, items |-> <<>>, dl |-> dl,
          written |-> <<>>]
  ELSE
    LET stream == pending \o arriving
        c      == CaptureLoopOld(buf, 0, stream, <<>>, dl)
        t1     == IF c.res = "timeout" THEN t + ACK_TIMEOUT + 1 ELSE t + el
        left   == RealBytes(Drop(stream, Min(c.reads, Len(stream))))
        items  == [j \in 1..c.reads |->
                     IF j <= Len(stream) THEN stream[j] ELSE EMPTY]
        o      == CaptureOutcome(c, sbuf, lastRead, t1)
    IN [res |-> c.res, ok |-> o.ok, buffer |-> c.buffer,
        serialBuffer |-> o.serialBuffer, serialLastRead |-> o.serialLastRead,
        rx |-> left, now |-> t1,
        polled |-> TRUE, nRead |-> c.reads, items |-> items, dl |-> dl,
        written |-> c.written]

\* what an accessor of the older implementation returns after readSerial
\* returned true: "a + b << 2" is (a + b) << 2
AccessorValueOld(acc, sbuf) ==
  CASE acc = "targetState"    -> sbuf[8]
    [] acc = "movingDistance" -> (sbuf[9] + sbuf[10]) * 4
    [] acc = "movingEnergy"   -> sbuf[11]
    [] acc = "staticDistance" -> (sbuf[12] + sbuf[13]) * 4
    [] acc = "staticEnergy"   -> sbuf[14]

\* the state after the older readSerial returned r to accessor acc or, when
\* r.res is "hang", the state in which its loop is still running and nothing
\* has been returned
AccessorReturnOld(acc, r) ==
  LET ret == IF r.res = "hang" THEN <<>>
             ELSE IF r.ok THEN RetInt(AccessorValueOld(acc, r.serialBuffer))
             ELSE RetInt(-1)
  IN /\ buffer' = r.buffer
     /\ serialBuffer' = r.serialBuffer
     /\ serialLastRead' = r.serialLastRead
     /\ rx' = r.rx
     /\ now' = r.now
     /\ captured' = (captured \/ r.res = "complete")
     /\ cacheFromTransport' =
          CASE r.res = "complete" -> LastFromTransport(r.items)
            [] r.res = "nodata"   -> FALSE
            [] OTHER              -> cacheFromTransport
     /\ call' = [NoCall EXCEPT !.op = acc, !.ret = ret, !.polled = r.polled,
                               !.nRead = r.nRead, !.items = r.items,
                               !.rs = r.res, !.bodyRet = ret, !.dl = r.dl,
                               !.rev = "part_001", !.written = r.written]

\* a telemetry accessor of the older implementation
AccessorCallOld(acc) ==
  /\ Idle
  /\ ncalls < MaxCalls
  /\ ncalls' = ncalls + 1
  /\ UNCHANGED <<refresh_threshold, data_len, paramResponse, sensResponse,
                 firmwareResponse>>
  /\ IF Fresh(serialLastRead, OLD_REFRESH, now) \/ rx = <<>>
       THEN \E r \in {ReadSerialOld(buffer, serialBuffer, serialLastRead,
                                    now, rx, <<>>, 1, 0)} :
              AccessorReturnOld(acc, r)
       ELSE \E a \in CaptureArrivals, dl \in Deadlines, el \in CaptureTimes :
            \E r \in {ReadSerialOld(buffer, serialBuffer, serialLastRead,
                                    now, rx, a, dl, el)} :
              AccessorReturnOld(acc, r)

\* One more iteration of the for loop of a call of the older readSerial that
\* is still running on a used-up Transport: read() returns -1, the byte goes
\* to buffer[0] and the if / else if chain is run on it.  The reads are
\* counted up to the first one after the deadline.
SeekOld ==
  /\ call.rs = "hang"
  /\ call.nRead <= call.dl
  /\ \E c \in {CaptureLoopOld(buffer, 0, <<>>, call.written, call.dl)} :
       /\ buffer' = c.buffer
       /\ call' = [call EXCEPT !.nRead = c.reads,
                               !.rs = c.res,
                               !.written = c.written,
                               !.ret = IF c.res = "hang" THEN <<>>
                                                         ELSE RetInt(-1),
                               !.bodyRet = IF c.res = "hang" THEN <<>>
                                                             ELSE RetInt(-1)]
  /\ UNCHANGED <<serialBuffer, serialLastRead, refresh_threshold, data_len,
                 paramResponse, sensResponse, firmwareResponse, rx, now,
                 ncalls, captured, cacheFromTransport>>

(*************************** the distance accessors ************************)
Bytes == 0..255

DistanceAccessors == {"movingDistance", "staticDistance"}

\* a driver that has just captured, at time 1, a telemetry frame whose two
\* distance fields hold the bytes lo, hi
InitDist ==
  /\ \E lo \in Bytes, hi \in Bytes :
       /\ buffer = [i \in 0..(BUFFER_SIZE - 1) |->
                      IF i < SERIAL_BUFFER_SIZE
                        THEN TeleFrame(<<1, lo, hi, 60, lo, hi, 60>>)[i + 1]
                        ELSE 0]
       /\ serialBuffer = ArrayOf(TeleFrame(<<1, lo, hi, 60, lo, hi, 60>>))
  /\ serialLastRead = 1
  /\ refresh_threshold = DEFAULT_REFRESH
  /\ data_len = Fill(2, 0)
  /\ paramResponse = <<0, 0, 0, 0, 0>>
  /\ sensResponse = Rep(14, 0)
  /\ firmwareResponse = <<0, 0, 0>>
  /\ rx = <<>>
  /\ now = 1
  /\ ncalls = 0
  /\ call = NoCall
  /\ captured = TRUE
  /\ cacheFromTransport = TRUE

\* the distance accessors of both implementations on the captured frame
NextDist ==
  \/ \E acc \in DistanceAccessors : AccessorCall(acc)
  \/ \E acc \in DistanceAccessors : AccessorCallOld(acc)
  \/ Resume

SpecDist == InitDist /\ [][NextDist]_vars

(*************************** frame synchronisation *************************)
\* a header with a wrong third byte
BadPrefix == <<\hF4, \hF3, 0, \hF1>>

\* thirteen bytes between header and footer: one value throughout, or bytes
\* that look like a header, a footer or an empty read
SyncPayloads ==
  {Rep(13, b) : b \in {0, \h55, \hF4, \hF8, \hFF}}
  \cup {<<\hF4, \hF3, \hF2, \hF1, 1, 2, 3, 4, 5, \hF8, \hF7, \hF6, \hF5>>,
        <<\h0B, 0, \h02, \hAA, 1, \h2C, \h01, 60, 0, 0, 0, \h55, 0>>}

\* a frame whose byte at position p (17..20) is w instead of the footer byte,
\* followed by the first two bytes of the next frame
BrokenFooter(p, w) == [Frame1 EXCEPT ![p + 1] = w] \o <<\hF4, \hF3>>

BrokenFooters == {BrokenFooter(p, w) : p \in 17..20, w \in {0, \hF4}}

\* what the Transport holds when the first read is made: a frame, a frame
\* behind a bad prefix, a frame whose header is the bad prefix, a frame
\* behind one stray F4, a frame with a wrong footer byte, or a frame followed
\* by one with a wrong footer byte
SyncStreams ==
  {TELE_HEADER \o p \o TELE_FOOTER : p \in SyncPayloads}
  \cup {BadPrefix \o TELE_HEADER \o p \o TELE_FOOTER : p \in SyncPayloads}
  \cup {BadPrefix \o p \o TELE_FOOTER : p \in SyncPayloads}
  \cup {<<\hF4>> \o TELE_HEADER \o p \o TELE_FOOTER : p \in SyncPayloads}
  \cup BrokenFooters
  \cup {Frame0 \o BrokenFooter(18, 0)}

\* a newly constructed driver with a stream waiting on the Transport
InitSync ==
  /\ \E g \in InitBytes :
       /\ buffer = Fill(BUFFER_SIZE, g)
       /\ serialBuffer = Fill(SERIAL_BUFFER_SIZE, g)
  /\ serialLastRead = NULL
  /\ refresh_threshold = DEFAULT_REFRESH
  /\ data_len = Fill(2, 0)
  /\ paramResponse = <<0, 0, 0, 0, 0>>
  /\ sensResponse = Rep(14, 0)
  /\ firmwareResponse = <<0, 0, 0>>
  /\ rx \in SyncStreams
  /\ now = 0
  /\ ncalls = 0
  /\ call = NoCall
  /\ captured = FALSE
  /\ cacheFromTransport = FALSE

NextSync ==
  \/ \E acc \in Accessors : AccessorCall(acc)
  \/ Tick
  \/ Resume

SpecSync == InitSync /\ [][NextSync]_vars

(********************************* acks *************************************)
\* s with the byte at offset p (0-based) replaced by another value
Mutate(s, p) == [s EXCEPT ![p + 1] = (s[p + 1] + 1) % 256]

\* the acks the device answers with in these behaviours: to enableConfig, to
\* enterCalibrationMode and to getMotionSensitivity
AckShapes ==
  {GoodAck(\hFF, ENABLE_ACK_LEN, 0, Rep(4, 0)),
   GoodAck(\h0B, 14, 0, <<>>),
   GoodAck(\h13, 28, 0, Rep(14, 40))}

\* what waits on the Transport when getAck starts: an ack, or an ack with one
\* byte changed, alone or followed by the telemetry the device resumes
AckStreams ==
  {a \o t : a \in AckShapes
                  \cup UNION {{Mutate(g, p) : p \in 0..(Len(g) - 1)} :
                                g \in AckShapes},
            t \in {<<>>, Frame1}}

\* the (respData, len) pairs the driver passes to getAck
AckCalls ==
  {<<EnableData[1], ENABLE_ACK_LEN>>, <<DisableData[1], ENABLE_ACK_LEN>>}
  \cup {<<OpData(c)[1], OpAckLen(c.op)>> :
          c \in {x \in CommandCalls : ~RejectedBeforeIO(x)}}

\* buffer as the caller of getAck sees it through the pointer returned
AsSeq(buf) == [j \in 1..BUFFER_SIZE |-> buf[j - 1]]

\* One "sendCommand(data); getAck(data[0], len)" on its own: the frame is
\* written, the Transport drained for ACK_TIMEOUT ms and the buffer validated.
\* ret is what getAck returns.
GetAck(respData, len, oob) ==
  /\ Idle
  /\ ncalls < MaxCalls
  /\ ncalls' = ncalls + 1
  /\ \E u \in OobOutcomes(buffer, rx, respData, len) :
     \E e \in {Exchange(buffer, rx, <<respData, 0>>, oob, respData, len,
                        <<>>, u)} :
       /\ buffer' = e.buffer
       /\ rx' = e.rx
       /\ now' = now + ACK_TIMEOUT
       /\ data_len' = [data_len EXCEPT ![0] = PTR_SIZE]
       /\ call' = [NoCall EXCEPT !.op = "getAck", !.arg = <<respData, len>>,
                                 !.ret = IF e.ack.valid THEN AsSeq(e.buffer)
                                                        ELSE NullPtr,
                                 !.wrote = <<e.frame>>, !.acks = <<e.ack>>,
                                 !.polled = TRUE, !.nRead = e.ack.n,
                                 !.written = AckWritten(rx)]
  /\ UNCHANGED <<serialBuffer, serialLastRead, refresh_threshold, paramResponse,
                 sensResponse, firmwareResponse, captured, cacheFromTransport>>

\* a newly constructed driver with an answer of the device on the Transport
InitAck ==
  /\ \E g \in InitBytes :
       /\ buffer = Fill(BUFFER_SIZE, g)
       /\ serialBuffer = Fill(SERIAL_BUFFER_SIZE, g)
  /\ serialLastRead = NULL
  /\ refresh_threshold = DEFAULT_REFRESH
  /\ data_len = Fill(2, 0)
  /\ paramResponse = <<0, 0, 0, 0, 0>>
  /\ sensResponse = Rep(14, 0)
  /\ firmwareResponse = <<0, 0, 0>>
  /\ rx \in AckStreams
  /\ now = 0
  /\ ncalls = 0
  /\ call = NoCall
  /\ captured = FALSE
  /\ cacheFromTransport = FALSE

NextAck ==
  \/ \E c \in AckCalls, oob \in OobTails : GetAck(c[1], c[2], oob)
  \/ Resume

SpecAck == InitAck /\ [][NextAck]_vars

(************************ the older capture loop ***************************)
\* what the Transport holds when the older readSerial is called: a frame, a
\* frame behind a bad prefix, the start of a frame, a frame with a wrong
\* footer byte, and streams without a header
OldStreams ==
  {Frame1, BadPrefix \o Frame1, Take(Frame1, 6), BrokenFooter(18, 0),
   BadPrefix, Rep(5, 0), Rep(SERIAL_BUFFER_SIZE, \h55)}

InitOld ==
  /\ \E g \in InitBytes :
       /\ buffer = Fill(BUFFER_SIZE, g)
       /\ serialBuffer = Fill(SERIAL_BUFFER_SIZE, g)
  /\ serialLastRead = NULL
  /\ refresh_threshold = DEFAULT_REFRESH
  /\ data_len = Fill(2, 0)
  /\ paramResponse = <<0, 0, 0, 0, 0>>
  /\ sensResponse = Rep(14, 0)
  /\ firmwareResponse = <<0, 0, 0>>
  /\ rx \in OldStreams
  /\ now = 0
  /\ ncalls = 0
  /\ call = NoCall
  /\ captured = FALSE
  /\ cacheFromTransport = FALSE

NextOld ==
  \/ \E acc \in Accessors : AccessorCallOld(acc)
  \/ SeekOld
  \/ Tick
  \/ Resume

\* the loop of a call that is in progress keeps running
SpecOld == InitOld /\ [][NextOld]_vars /\ WF_vars(SeekOld)

(************************* the shared capture buffer ***********************)
\* bytes without a header, more of them than either capture can store
Flood == Rep(BUFFER_SIZE + 8, \h55)

\* what the Transport holds when getAck or readSerial starts to capture
BufStreams ==
  {GoodAck(\hFF, ENABLE_ACK_LEN, 0, Rep(4, 0)),
   GoodAck(\hFF, ENABLE_ACK_LEN, 0, Rep(4, 0)) \o Frame1,
   GoodAck(\h13, 28, 0, Rep(14, 40)) \o Frame1,
   Frame1, Frame1 \o Frame0, <<\hF4>> \o Frame1, BadPrefix \o Frame1,
   BrokenFooter(18, 0), Take(Frame1, 6), Flood}

InitBuf ==
  /\ \E g \in InitBytes :
       /\ buffer = Fill(BUFFER_SIZE, g)
       /\ serialBuffer = Fill(SERIAL_BUFFER_SIZE, g)
  /\ serialLastRead = NULL
  /\ refresh_threshold = DEFAULT_REFRESH
  /\ data_len = Fill(2, 0)
  /\ paramResponse = <<0, 0, 0, 0, 0>>
  /\ sensResponse = Rep(14, 0)
  /\ firmwareResponse = <<0, 0, 0>>
  /\ rx \in BufStreams
  /\ now = 0
  /\ ncalls = 0
  /\ call = NoCall
  /\ captured = FALSE
  /\ cacheFromTransport = FALSE

\* both users of the capture buffer on the same driver
NextBuf ==
  \/ \E c \in AckCalls, oob \in OobTails : GetAck(c[1], c[2], oob)
  \/ \E acc \in Accessors : AccessorCall(acc)
  \/ Resume

SpecBuf == InitBuf /\ [][NextBuf]_vars

(************************* the sensitivity getters *************************)
\* the four get operations for the per-gate sensitivities
SensitivityGetters ==
  {[op |-> o, arg |-> <<>>] :
     o \in {"getMotionSensitivityArr", "getMotionSensitivity",
            "getStaticSensitivityArr", "getStaticSensitivity"}}

\* the 14 per-gate bytes of an ack: every byte value at the first and at the
\* last gate next to the largest byte, and some byte values at all gates
GateInputs ==
  {[j \in 1..14 |-> IF j = p THEN v ELSE 255] : p \in {1, 14}, v \in Bytes}
  \cup {Rep(14, v) : v \in {0, 40, 100, 101}}

\* CommandCall with the bytes that arrive in the three ack waits chosen from
\* the sets A1, A2 and A3
CommandCallOn(c, oob, A1, A2, A3) ==
  /\ Idle
  /\ ncalls < MaxCalls
  /\ ~RejectedBeforeIO(c)
  /\ ncalls' = ncalls + 1
  /\ UNCHANGED <<serialBuffer, serialLastRead, refresh_threshold, captured,
                 cacheFromTransport>>
  /\ \E a1 \in A1 :
     \E u1 \in OobOutcomes(buffer, rx \o a1, EnableData[1], ENABLE_ACK_LEN) :
     \E e \in {Exchange(buffer, rx, EnableData, oob, EnableData[1],
                        ENABLE_ACK_LEN, a1, u1)} :
       IF ~e.ack.ok
         THEN ReturnEarly(c, e)
         ELSE
           \E data \in {OpData(c)} :
           \E a2 \in A2 :
           \E u2 \in OobOutcomes(e.buffer, e.rx \o a2, data[1], OpAckLen(c.op)) :
           \E b \in {Exchange(e.buffer, e.rx, data, oob, data[1],
                              OpAckLen(c.op), a2, u2)} :
           \E a3 \in A3 :
           \E u3 \in OobOutcomes(b.buffer, b.rx \o a3, DisableData[1],
                                 ENABLE_ACK_LEN) :
           \E d \in {Exchange(b.buffer, b.rx, DisableData, oob, DisableData[1],
                              ENABLE_ACK_LEN, a3, u3)} :
             ReturnAfterBody(c, e, b, d)

\* a sensitivity getter on a new driver whose device acknowledges the
\* enable, answers the get command with the bytes g and may acknowledge the
\* disable
SensitivityCall(c, oob, g) ==
  CommandCallOn(c, oob, {GoodAck(EnableData[1], ENABLE_ACK_LEN, 0, Rep(4, 0))},
                {GoodAck(OpData(c)[1], OpAckLen(c.op), 0, g)}, DisableArrivals)

NextSens ==
  \E c \in SensitivityGetters, oob \in OobTails, g \in GateInputs :
    SensitivityCall(c, oob, g)

SpecSens == Init /\ [][NextSens]_vars

(******************************** properties *******************************)
\* the command id of a frame sendCommand wrote: its first data byte
FrameCmd(f) == f[7]

\* the three bytes that follow the command id in a frame
FramePayload(f) == {f[8], f[9], f[10]}

\* the operations that start with enableConfig
CommandOps == {c.op : c \in CommandCalls}

\* what the header documents as an operation's failure value: false, nullptr,
\* or -1 for the operations that return an int
FailureValue(op) ==
  IF op \in PtrOps THEN NullPtr
  ELSE IF op \in MinOps \cup {"checkCalibrationMode"} THEN RetInt(-1)
  ELSE RetBool(FALSE)

\* serialBuffer holds a frame between the telemetry header and footer
WellFormedTelemetry(sbuf) ==
  /\ \A j \in 0..3 : sbuf[j] = TELE_HEADER[j + 1]
  /\ \A j \in 0..3 : sbuf[17 + j] = TELE_FOOTER[j + 1]

\* C1: an exchange of a command operation counts as successful only if a
\* complete ack of the expected length for its command id was captured during
\* that call and passed validation with status byte 0; in particular not when
\* no byte was delivered.
C1_SuccessNeedsValidatedAck ==
  \A k \in 1..Len(call.acks) :
    call.acks[k].ok =>
      /\ call.acks[k].n >= call.acks[k].len
      /\ call.acks[k].wellFormed
      /\ call.acks[k].status = 0

\* C2: enableConfig succeeds whenever a well-formed 18-byte ack for 0xFF with
\* status 0 was delivered, and fails when the status byte is nonzero; bytes
\* outside header, length, id, status and the last four positions do not
\* matter.
C2_EnableAcceptsWellFormedAck ==
  Len(call.acks) >= 1 =>
    /\ (call.acks[1].wellFormed /\ call.acks[1].status = 0) => call.acks[1].ok
    /\ (call.acks[1].n >= ENABLE_ACK_LEN /\ call.acks[1].status # 0)
         => ~call.acks[1].ok

\* C3: an accessor returns a value other than -1 only if serialBuffer is a
\* well-formed telemetry frame made of 21 consecutive bytes the Transport
\* delivered.
C3_ValueOnlyFromCapturedFrame ==
  (call.op \in Accessors /\ call.ret # RetInt(-1)) =>
    /\ WellFormedTelemetry(serialBuffer)
    /\ cacheFromTransport

\* C4: a read made after a successful capture, while less than the refresh
\* threshold has elapsed since it, does not touch the Transport, leaves
\* serialBuffer and serialLastRead as they are and succeeds.
C4_ReadWithinThresholdIsCached ==
  [][(/\ Idle
      /\ call'.op \in Accessors
      /\ captured
      /\ now - serialLastRead < refresh_threshold)
     => (/\ ~call'.polled
         /\ call'.nRead = 0
         /\ serialBuffer' = serialBuffer
         /\ serialLastRead' = serialLastRead
         /\ call'.ret # RetInt(-1))]_vars

\* C5: when readSerial returns false (footer mismatch or deadline passed)
\* after an earlier successful capture, serialBuffer and serialLastRead keep
\* the values they had before the call and the accessor returns -1.
C5_FailedReadKeepsCache ==
  [][(/\ Idle
      /\ call'.op \in Accessors
      /\ captured
      /\ call'.rs \in {"footer", "timeout"})
     => (/\ serialBuffer' = serialBuffer
         /\ serialLastRead' = serialLastRead
         /\ call'.ret = RetInt(-1))]_vars

\* a failed capture after a successful one has returned -1 to its accessor
C5_Witness ==
  /\ call.op \in Accessors
  /\ captured
  /\ call.rs \in {"footer", "timeout"}
  /\ call.ret = RetInt(-1)
  /\ WellFormedTelemetry(serialBuffer)

\* C6 (as stated): a command operation that returns a failure has written a
\* disable-config frame after every enable-config frame it wrote, also when
\* the enable ack was missing or rejected.
C6_FailureLeavesConfigMode ==
  (call.op \in CommandOps /\ Len(call.wrote) >= 1
     /\ call.ret = FailureValue(call.op)) =>
    /\ FrameCmd(call.wrote[1]) = \hFF
    /\ FrameCmd(call.wrote[Len(call.wrote)]) = \hFE

\* C6: a command operation whose enableConfig succeeded has written a
\* disable-config frame after its enable-config frame when it returns,
\* whatever became of its own command; an operation whose enableConfig failed
\* returns with the enable-config frame alone written.
C6_DisableAfterSuccessfulEnable ==
  (call.op \in CommandOps /\ Len(call.acks) >= 1) =>
    /\ FrameCmd(call.wrote[1]) = \hFF
    /\ IF call.acks[1].ok
         THEN FrameCmd(call.wrote[Len(call.wrote)]) = \hFE
         ELSE Len(call.wrote) = 1

\* an operation whose own command failed after a successful enable has
\* written the disable-config frame
C6_Witness ==
  /\ call.op \in CommandOps
  /\ Len(call.acks) = 3
  /\ call.acks[1].ok
  /\ ~call.acks[2].ok
  /\ Len(call.wrote) = 3
  /\ FrameCmd(call.wrote[3]) = \hFE

\* C7: once enableConfig succeeded the disable-config frame is written and its
\* ack awaited after the operation's own ack wait, and the value returned is
\* the one the operation's own ack determines, whatever the disable exchange
\* does.
C7_ResultIsBodyResult ==
  (call.op \in CommandOps /\ Len(call.acks) >= 1 /\ call.acks[1].ok) =>
    /\ Len(call.wrote) = 3
    /\ Len(call.acks) = 3
    /\ FrameCmd(call.wrote[3]) = \hFE
    /\ call.acks[3].respData = \hFE
    /\ call.ret = call.bodyRet

\* C8: when enableConfig does not succeed the operation returns its failure
\* value and the enable-config frame is the only frame written; any other
\* command frame was written after a successful enable of the same call.
C8_EnableFailureStopsOperation ==
  /\ (call.op \in CommandOps /\ Len(call.acks) >= 1 /\ ~call.acks[1].ok) =>
       /\ call.ret = FailureValue(call.op)
       /\ Len(call.wrote) = 1
       /\ FrameCmd(call.wrote[1]) = \hFF
  /\ \A k \in 1..Len(call.wrote) :
       FrameCmd(call.wrote[k]) \notin {\hFF, \hFE} => call.acks[1].ok

\* C9: setBaudRate with a baud rate outside the table returns false without a
\* write, available() or read() on the Transport and without changing the
\* driver's state.
C9_UnsupportedBaudRejected ==
  [][(/\ Idle
      /\ call'.op = "setBaudRate"
      /\ call'.arg[1] \notin SupportedBauds)
     => (/\ call'.ret = RetBool(FALSE)
         /\ call'.wrote = <<>>
         /\ ~call'.polled
         /\ call'.nRead = 0
         /\ UNCHANGED <<driver, rx, now>>)]_vars

\* setBaudRate has returned false for a baud rate outside the table
C9_Witness ==
  /\ call.op = "setBaudRate"
  /\ call.arg[1] \notin SupportedBauds
  /\ call.ret = RetBool(FALSE)
  /\ call.wrote = <<>>

\* C10: the frame setBaudRate writes after a successful enable carries command
\* id 0x05 and, as payload, the index the table gives the baud rate (9600 -> 1
\* up to 460800 -> 8, the values of BaudIndex), and the ack it awaits is
\* validated against command id 0x05.
C10_BaudFrameCarriesIdAndIndex ==
  (call.op = "setBaudRate" /\ Len(call.wrote) >= 2) =>
    /\ FrameCmd(call.wrote[2]) = \h05
    /\ BaudIndex(call.arg[1]) \in FramePayload(call.wrote[2])
    /\ call.acks[2].respData = \h05

\* the frame for a whole data array: header, its length in two little-endian
\* bytes, its bytes, footer
FrameOf(data) ==
  FRAME_HEADER \o <<Len(data) % 256, Len(data) \div 256>> \o data \o FRAME_FOOTER

\* the data array behind the k-th frame of the last call: enableConfig's, the
\* operation's own, disableConfig's
CallData(k) ==
  CASE k = 1 -> EnableData
    [] k = 2 -> OpData(call)
    [] k = 3 -> DisableData

SensitivitySetters == {"setMotionSensitivity", "setMotionSensitivityArr",
                       "setStaticSensitivity", "setStaticSensitivityArr"}

\* C11: the broadcast and the per-gate entry point of setMotionSensitivity
\* write the same frame for the same value v: length field 16 and the payload
\* 03 00 followed by fourteen bytes v; likewise setStaticSensitivity with
\* 04 00.
C11_SensitivityFrameComplete ==
  (call.op \in SensitivitySetters /\ Len(call.wrote) >= 2) =>
    call.wrote[2] =
      FrameOf(<<IF call.op \in {"setMotionSensitivity", "setMotionSensitivityArr"}
                  THEN \h03 ELSE \h04, 0>>
              \o Rep(14, call.arg[1]))

\* C12: every frame sendCommand writes is the header, the length of the
\* command's data array, exactly the bytes of that array, and the footer, for
\* arrays of 2, 4, 7 and 16 bytes alike.
C12_FrameIsWholeDataArray ==
  call.op \in CommandOps =>
    \A k \in 1..Len(call.wrote) : call.wrote[k] = FrameOf(CallData(k))

\* C13: in both implementations movingDistance and staticDistance, on a
\* successful read, return low + 256 * high of the two distance bytes of the
\* cached frame (offsets 9, 10 and 12, 13), for all byte values.
C13_DistanceIsLittleEndian ==
  (call.op \in DistanceAccessors /\ call.rs = "cached") =>
    call.ret = RetInt(IF call.op = "movingDistance"
                        THEN serialBuffer[9] + 256 * serialBuffer[10]
                        ELSE serialBuffer[12] + 256 * serialBuffer[13])

\* C14: the scalar getMotionSensitivity and getStaticSensitivity return -1 on
\* every failure path (enableConfig failed; the command's ack missing, invalid
\* or with nonzero status); a value in 0..100 is returned only after the
\* command's ack was captured whole and validated with status 0.
C14_ScalarGetterFailsWithMinusOne ==
  (call.op \in MinOps /\ Len(call.acks) >= 1) =>
    \/ call.ret = RetInt(-1)
    \/ /\ call.acks[1].ok
       /\ Len(call.acks) >= 2
       /\ call.acks[2].wellFormed
       /\ call.acks[2].status = 0

\* C15: with the refresh interval elapsed and the deadline not reached, a
\* stream that starts F4 F3 00 F1 never completes a frame that begins inside
\* that prefix; and a stream that starts with F4 F3 F2 F1, thirteen bytes and
\* F8 F7 F6 F5 makes readSerial return true with serialBuffer equal to those
\* 21 bytes, which are taken off the Transport by that one read.
C15_HeaderMismatchDiscardsProgress ==
  [][(/\ Idle
      /\ call'.op \in Accessors
      /\ ~Fresh(serialLastRead, refresh_threshold, now)
      /\ Len(rx) >= 21
      /\ call'.rs # "timeout")
     => (/\ (Take(rx, 4) = BadPrefix /\ call'.rs = "complete")
              => (/\ call'.nRead >= 4 + SERIAL_BUFFER_SIZE
                  /\ \A j \in 0..3 : serialBuffer'[j] = TELE_HEADER[j + 1])
         /\ (Take(rx, 4) = TELE_HEADER /\ Take(Drop(rx, 17), 4) = TELE_FOOTER)
              => (/\ call'.rs = "complete"
                  /\ call'.ret # RetInt(-1)
                  /\ call'.nRead = SERIAL_BUFFER_SIZE
                  /\ serialBuffer' = ArrayOf(Take(rx, 21))
                  /\ Len(rx') >= Len(rx) - 21
                  /\ Take(rx', Len(rx) - 21) = Drop(rx, 21)))]_vars

\* a frame behind a bad prefix has been captured after the prefix was dropped
C15_Witness ==
  /\ call.op \in Accessors
  /\ call.rs = "complete"
  /\ Len(call.items) = 4 + SERIAL_BUFFER_SIZE
  /\ Take(call.items, 4) = BadPrefix
  /\ serialBuffer = ArrayOf(Drop(call.items, 4))

\* C16: a capture of the readSerial of part_000 ends no later than the read at
\* which its deadline has passed, and a capture that reaches that read without
\* a complete frame returns false, also while it is still looking for a header
\* on a stream that holds none.
C16_DeadlineEndsCapture ==
  (call.op \in Accessors /\ call.rev = "part_000" /\ call.nRead > 0) =>
    /\ call.rs \in {"complete", "footer", "timeout"}
    /\ call.nRead <= call.dl
    /\ call.nRead = call.dl => (call.rs # "complete" /\ call.ret = RetInt(-1))

\* a capture that found no header has ended at its deadline with -1
C16_Witness ==
  /\ call.op \in Accessors
  /\ call.rs = "timeout"
  /\ call.nRead = call.dl
  /\ call.nRead > Len(BadPrefix) + 13 + Len(TELE_FOOTER)
  /\ Take(call.items, 4) = BadPrefix
  /\ call.ret = RetInt(-1)
  /\ ~captured

\* C17: getAck returns nullptr when fewer than len bytes were captured by the
\* time the ack timeout has passed; it returns the buffer only after at least
\* len bytes were captured in that call.
C17_ShortReadIsNull ==
  \A k \in 1..Len(call.acks) :
    call.acks[k].valid => call.acks[k].n >= call.acks[k].len

\* a header, length, spacing, command, marker or footer byte of buf is not the
\* one an ack of length len to command respData has
Deviates(buf, respData, len) ==
  \/ \E j \in 0..3 : buf[j] # FRAME_HEADER[j + 1]
  \/ buf[4] # len - 12
  \/ buf[5] # 0
  \/ buf[6] # respData
  \/ buf[7] # 1
  \/ \E j \in 0..3 : buf[len - 4 + j] # FRAME_FOOTER[j + 1]

\* C18: when at least len bytes were captured, getAck returns nullptr if a
\* header byte, the length byte, the spacing byte, the command byte, the ack
\* marker or one of the four footer bytes at len-4 .. len-1 (the first footer
\* position included) is not the expected one.
C18_DeviationIsRejected ==
  (call.op = "getAck" /\ call.acks[1].n >= call.arg[2]
     /\ Deviates(buffer, call.arg[1], call.arg[2]))
    => call.ret = NullPtr

\* an ack whose first footer byte alone was changed has been rejected
C18_Witness ==
  /\ call.op = "getAck"
  /\ call.arg = <<\hFF, ENABLE_ACK_LEN>>
  /\ call.acks[1].n >= ENABLE_ACK_LEN
  /\ AsSeq(buffer)[15] # FRAME_FOOTER[1]
  /\ \A j \in 1..ENABLE_ACK_LEN :
       j # 15 => AsSeq(buffer)[j] = GoodAck(\hFF, ENABLE_ACK_LEN, 0, Rep(4, 0))[j]
  /\ call.ret = NullPtr

\* C19: getAck stops draining once len bytes are captured: one call takes no
\* more than len bytes off the Transport, what arrived behind the ack stays
\* there.
C19_DrainsAtMostLen ==
  \A k \in 1..Len(call.acks) : call.acks[k].n <= call.acks[k].len

\* C20: read() is called only when available() has just reported a byte: no
\* read returns the "nothing there" value, so no byte the Transport did not
\* deliver is stored into the capture buffer.
C20_ReadsOnlyAvailableBytes ==
  \A j \in 1..Len(call.items) : call.items[j] # EMPTY

\* C21: a byte that breaks the header at position 1, 2 or 3 is kept as the
\* candidate for position 0, so one stray F4 followed by a complete frame, all
\* of it on the Transport before the deadline, ends in a successful capture
\* of that frame.
C21_StrayByteThenFrameIsCaptured ==
  [][(/\ Idle
      /\ call'.op \in Accessors
      /\ ~Fresh(serialLastRead, refresh_threshold, now)
      /\ Len(rx) = 1 + SERIAL_BUFFER_SIZE
      /\ rx[1] = \hF4
      /\ Take(Drop(rx, 1), 4) = TELE_HEADER
      /\ Drop(rx, 18) = TELE_FOOTER
      /\ call'.dl > Len(rx))
     => (/\ call'.rs = "complete"
         /\ call'.ret # RetInt(-1)
         /\ serialBuffer' = ArrayOf(Drop(rx, 1)))]_vars

\* the first position 17..20 of stream s that does not hold its footer byte,
\* 21 when all four hold it
FirstFooterDeviation(s) ==
  IF \E p \in 17..20 : s[p + 1] # TELE_FOOTER[p - 16]
    THEN CHOOSE p \in 17..20 :
           /\ s[p + 1] # TELE_FOOTER[p - 16]
           /\ \A q \in 17..(p - 1) : s[q + 1] = TELE_FOOTER[q - 16]
    ELSE SERIAL_BUFFER_SIZE

\* C22: when the header was accepted and the byte captured at position p in
\* 17..20 is not the footer byte (the deadline not having passed before that
\* read), readSerial returns false at that read: the accessor returns -1,
\* exactly p + 1 bytes were read, the bytes behind them stay on the Transport,
\* and serialBuffer and serialLastRead are as before.
C22_FooterMismatchReturnsFalse ==
  [][(/\ Idle
      /\ call'.op \in Accessors
      /\ ~Fresh(serialLastRead, refresh_threshold, now)
      /\ Len(rx) >= SERIAL_BUFFER_SIZE
      /\ Take(rx, 4) = TELE_HEADER
      /\ FirstFooterDeviation(rx) < SERIAL_BUFFER_SIZE
      /\ call'.dl > FirstFooterDeviation(rx))
     => (/\ call'.rs = "footer"
         /\ call'.ret = RetInt(-1)
         /\ call'.nRead = FirstFooterDeviation(rx) + 1
         /\ call'.items = Take(rx, FirstFooterDeviation(rx) + 1)
         /\ Len(rx') >= Len(rx) - call'.nRead
         /\ Take(rx', Len(rx) - call'.nRead) = Drop(rx, call'.nRead)
         /\ serialBuffer' = serialBuffer
         /\ serialLastRead' = serialLastRead)]_vars

\* a capture was given up at position 18 of the second frame, the bytes behind
\* it are still on the Transport and the cache holds the first frame
C22_Witness ==
  /\ call.op \in Accessors
  /\ call.rs = "footer"
  /\ call.nRead = 19
  /\ Take(call.items, 4) = TELE_HEADER
  /\ call.ret = RetInt(-1)
  /\ rx # <<>>
  /\ captured
  /\ serialBuffer = ArrayOf(Frame0)
  /\ buffer[18] # \hF7

\* C23: a call of the older readSerial whose capture loop is running
\* eventually returns, also when every byte read fails the header check.
C23_OlderCaptureReturns ==
  (call.rev = "part_001" /\ call.rs = "hang") ~> (call.rs # "hang")

\* C24: every store into the capture buffer is in bounds: getAck stores at
\* indices 0..31 only and readSerial at indices 0..20 only, whatever the
\* Transport holds.
C24_CaptureWritesInBounds ==
  \A j \in 1..Len(call.written) :
    /\ call.op = "getAck" => call.written[j] \in 0..(BUFFER_SIZE - 1)
    /\ call.op \in Accessors => call.written[j] \in 0..(SERIAL_BUFFER_SIZE - 1)

\* getAck filled the whole buffer while the Transport had more bytes
C24_Witness ==
  /\ call.op = "getAck"
  /\ call.nRead = BUFFER_SIZE
  /\ Len(call.written) = BUFFER_SIZE
  /\ call.written[BUFFER_SIZE] = BUFFER_SIZE - 1
  /\ rx # <<>>

\* C25: when getAck has filled all 32 bytes of the buffer and the Transport
\* still holds bytes, it returns nullptr.
C25_OverrunIsFailure ==
  (/\ call.op = "getAck"
   /\ Len(call.written) = BUFFER_SIZE
   /\ rx # <<>>)
  => call.ret = NullPtr

\* C26: what a get operation (getParamConfig, the sensitivity getters of both
\* forms, readFirmwareVersion, checkCalibrationMode) returns on success is the
\* value held by the ack to its own command, whatever the disableConfig
\* exchange that follows puts into the shared buffer.
C26_GetterValueFromOwnAck ==
  (/\ call.op \in PtrOps \cup MinOps \cup {"checkCalibrationMode"}
   /\ Len(call.acks) = 3
   /\ call.acks[1].ok
   /\ call.acks[2].ok)
  => call.ret = call.bodyRet

\* the smallest element of a sequence of numbers
MinOf(s) ==
  CHOOSE m \in {s[j] : j \in 1..Len(s)} : \A j \in 1..Len(s) : m <= s[j]

\* the per-gate bytes at offsets 10..23 of the ack held by buf
GatesOf(buf) == [j \in 1..14 |-> buf[j + 9]]

\* C27: on success the array form of a sensitivity getter returns the 14
\* bytes at offsets 10..23 of the ack to its command and the scalar form
\* returns the minimum of these 14 bytes, whatever their values.  (Stated for
\* calls whose disable wait captured nothing, so that the buffer still holds
\* that ack.)
C27_ScalarIsMinimumOfGates ==
  (/\ call.op \in {x.op : x \in SensitivityGetters}
   /\ Len(call.acks) = 3
   /\ call.acks[2].ok
   /\ call.acks[3].n = 0)
  => /\ call.op \notin MinOps => call.ret = GatesOf(buffer)
     /\ call.op \in MinOps => call.ret = RetInt(MinOf(GatesOf(buffer)))
====
